---------------------------- MODULE Spec2Model ----------------------------
(***************************************************************************)
(* Model of the todos application: the relational store                    *)
(* (todos/database_persistence.py), the session store                      *)
(* (todos/session_persistence.py), the helpers of todos/utils.py and the   *)
(* request handlers of app.py.                                             *)
(*                                                                         *)
(* A title is a sequence of one-character strings.  A row of the table     *)
(* lists is [id, title]; a row of the table todos is                       *)
(* [id, title, completed, list_id].  A session list is                     *)
(* [id, title, todos], todos a sequence of [id, title, completed].         *)
(***************************************************************************)
EXTENDS Integers, Sequences, FiniteSets, TLC

VARIABLES
    db,       \* relational store: [lists, todos, lseq, tseq, tables]
    sess,     \* session store: [lists, n]  (n = number of uuid4() tokens drawn)
    op,       \* the operation or request under way and its inputs, or idle
    dbRes,    \* outcome of that storage operation on DatabasePersistence
    sessRes,  \* outcome of that storage operation on SessionPersistence
    resp,     \* outcome of that request
    calls,    \* storage operations that request invoked, in order
    trip,     \* monitor of the create list / create todo / set status sequence
    mode,     \* the variant(s) under operation: "db", "session" or "both"
    made,     \* create_new_list and create_new_todo calls made so far
    arg,      \* todos/utils.py called on its own: the arguments at hand
    ret,      \* ... and the function last called with what it returned
    procs     \* DatabasePersistence step by step: each client's position

vars ==
    <<db, sess, op, dbRes, sessRes, resp, calls, trip, mode, made, arg, ret, procs>>

\* the variables of the stores and requests, and those of the other parts
storeVars == <<db, sess, op, dbRes, sessRes, resp, calls, trip, mode, made>>
others == <<arg, ret, procs>>
utilVars == <<arg, ret>>

(***************************************************************************)
(* Bounds of the model.                                                    *)
(***************************************************************************)
MaxListSeq == 2     \* INSERTs into lists the model lets happen
MaxTodoSeq == 2     \* INSERTs into todos the model lets happen

MaxTitleLen == 100  \* varchar(100), and the "1 <= len(title) <= 100" checks

(***************************************************************************)
(* Titles.                                                                 *)
(***************************************************************************)
RECURSIVE Rep(_, _)
Rep(c, n) == IF n = 0 THEN <<>> ELSE <<c>> \o Rep(c, n - 1)

TA == <<"a">>
TB == <<"b">>
TM == <<"m">>
Long100 == Rep("x", MaxTitleLen)
Long101 == Rep("x", MaxTitleLen + 1)

\* titles handed to the storage operations directly
StoreListTitles == {TA, TB}
StoreTodoTitles == {TM}

\* raw form fields submitted to the request handlers
ListFormTitles == {<<" ">>, <<" ", "a", " ">>, Long100, Long101}
TodoFormTitles == {<<>>, <<" ">> \o Long100, Long101}

IsSpace(c) == c = " "

\* str.strip(): drop the leading and the trailing whitespace
RECURSIVE LStrip(_)
LStrip(s) == IF s # <<>> /\ IsSpace(Head(s)) THEN LStrip(Tail(s)) ELSE s

RECURSIVE RStrip(_)
RStrip(s) ==
    IF s # <<>> /\ IsSpace(s[Len(s)]) THEN RStrip(SubSeq(s, 1, Len(s) - 1)) ELSE s

Strip(s) == RStrip(LStrip(s))

(***************************************************************************)
(* Sets as sequences in ascending order of id (used to read a table in     *)
(* order of creation; the serial ids and the uuid ordinals grow).          *)
(***************************************************************************)
MinId(rows) == CHOOSE r \in rows : \A q \in rows : r.id <= q.id

RECURSIVE ById(_)
ById(rows) ==
    IF rows = {} THEN <<>>
    ELSE LET r == MinId(rows) IN <<r>> \o ById(rows \ {r})

Range(s) == {s[i] : i \in DOMAIN s}


(***************************************************************************)
(* Outcome of a storage operation: it returned a value (ok), returned None *)
(* (none), or raised (error, err the exception).  lists is what it         *)
(* returned: the rows of all_lists, the one list of find_list.             *)
(***************************************************************************)
Ok(ls)     == [kind |-> "ok",    err |-> "",  lists |-> ls]
NoneRes    == [kind |-> "none",  err |-> "",  lists |-> {}]
Raised(e)  == [kind |-> "error", err |-> e,   lists |-> {}]
Idle       == [kind |-> "idle",  err |-> "",  lists |-> {}]

(***************************************************************************)
(* DatabasePersistence.  Every operation runs its statement in one         *)
(* transaction: committed when the statement succeeds, rolled back when    *)
(* it raises (the values drawn from a serial sequence are not given back). *)
(* An operator returns [db, res]: the store afterwards and the outcome.    *)
(***************************************************************************)
EmptyDb == [lists |-> {}, todos |-> {}, lseq |-> 0, tseq |-> 0, tables |-> {}]

\* _setup_schema: CREATE TABLE lists / todos, each only when it is absent
Db_setup_schema(d) ==
    LET d1 == IF "lists" \notin d.tables
              THEN [d EXCEPT !.tables = @ \cup {"lists"}] ELSE d
    IN  IF "todos" \notin d1.tables
        THEN [d1 EXCEPT !.tables = @ \cup {"todos"}] ELSE d1

\* DatabasePersistence(): the constructor sets the schema up
Db_init(d) == Db_setup_schema(d)

\* title varchar(100): a longer value is refused unless the excess is spaces
VarcharFits(title) ==
    \/ Len(title) <= MaxTitleLen
    \/ \A i \in (MaxTitleLen + 1)..Len(title) : IsSpace(title[i])

VarcharValue(title) ==
    IF Len(title) <= MaxTitleLen THEN title ELSE SubSeq(title, 1, MaxTitleLen)

\* title ... UNIQUE: does another row than `id` hold this title
TitleTaken(d, title, id) ==
    \E l \in d.lists : l.id # id /\ l.title = title

\* SELECT * FROM todos WHERE list_id = %s
Db_find_todos_for_list(d, list_id) == {t \in d.todos : t.list_id = list_id}

Db_list_value(d, l) ==
    [id |-> l.id, title |-> l.title, todos |-> Db_find_todos_for_list(d, l.id)]

\* SELECT * FROM lists, then the todos of each row
Db_all_lists(d) == Ok({Db_list_value(d, l) : l \in d.lists})

\* SELECT * FROM lists WHERE id = %s; dict(cursor.fetchone()) raises
\* TypeError when no row matches, since fetchone() is then None
Db_find_list(d, list_id) ==
    IF \E l \in d.lists : l.id = list_id
    THEN Ok({Db_list_value(d, l) : l \in {q \in d.lists : q.id = list_id}})
    ELSE Raised("TypeError")

\* INSERT INTO lists, the column title not declared UNIQUE
Db_create_new_list_no_unique(d, title) ==
    IF ~VarcharFits(title)
    THEN [db |-> d, res |-> Raised("StringDataRightTruncation")]
    ELSE LET d1  == [d EXCEPT !.lseq = @ + 1]
             row == [id |-> d1.lseq, title |-> VarcharValue(title)]
         IN  [db |-> [d1 EXCEPT !.lists = @ \cup {row}], res |-> NoneRes]

\* INSERT INTO lists (title) VALUES (%s)
Db_create_new_list(d, title) ==
    IF ~VarcharFits(title)
    THEN [db |-> d, res |-> Raised("StringDataRightTruncation")]
    ELSE LET d1  == [d EXCEPT !.lseq = @ + 1]
             row == [id |-> d1.lseq, title |-> VarcharValue(title)]
         IN  IF TitleTaken(d, row.title, row.id)
             THEN [db |-> d1, res |-> Raised("UniqueViolation")]
             ELSE [db |-> [d1 EXCEPT !.lists = @ \cup {row}], res |-> NoneRes]

\* UPDATE lists SET title = %s, the WHERE clause left out
Db_update_list_by_id_no_where(d, list_id, new_title) ==
    IF ~VarcharFits(new_title)
    THEN [db |-> d, res |-> Raised("StringDataRightTruncation")]
    ELSE LET t == VarcharValue(new_title)
         IN  IF Cardinality(d.lists) > 1
                \/ \E l \in d.lists : TitleTaken(d, t, l.id)
             THEN [db |-> d, res |-> Raised("UniqueViolation")]
             ELSE [db |-> [d EXCEPT !.lists = {[l EXCEPT !.title = t] : l \in @}],
                   res |-> NoneRes]

\* UPDATE lists SET title = %s WHERE id = %s
Db_update_list_by_id(d, list_id, new_title) ==
    IF ~VarcharFits(new_title)
    THEN [db |-> d, res |-> Raised("StringDataRightTruncation")]
    ELSE LET hit == {l \in d.lists : l.id = list_id}
             t   == VarcharValue(new_title)
         IN  IF hit # {} /\ TitleTaken(d, t, list_id)
             THEN [db |-> d, res |-> Raised("UniqueViolation")]
             ELSE [db |-> [d EXCEPT !.lists =
                              (@ \ hit) \cup {[l EXCEPT !.title = t] : l \in hit}],
                   res |-> NoneRes]

\* DELETE FROM lists WHERE id = %s; todos.list_id ... ON DELETE CASCADE
Db_delete_list(d, list_id) ==
    [db |-> [d EXCEPT !.lists = {l \in @ : l.id # list_id},
                      !.todos = {t \in @ : t.list_id # list_id}],
     res |-> NoneRes]

\* INSERT INTO todos (list_id, title) VALUES (%s, %s);
\* completed DEFAULT false, list_id REFERENCES lists (id)
Db_create_new_todo(d, list_id, todo_title) ==
    IF ~VarcharFits(todo_title)
    THEN [db |-> d, res |-> Raised("StringDataRightTruncation")]
    ELSE LET d1  == [d EXCEPT !.tseq = @ + 1]
             row == [id |-> d1.tseq, title |-> VarcharValue(todo_title),
                     completed |-> FALSE, list_id |-> list_id]
         IN  IF ~ \E l \in d.lists : l.id = list_id
             THEN [db |-> d1, res |-> Raised("ForeignKeyViolation")]
             ELSE [db |-> [d1 EXCEPT !.todos = @ \cup {row}], res |-> NoneRes]

\* DELETE FROM todos WHERE list_id = %s, the test of id left out
Db_delete_todo_from_list_no_id(d, list_id, todo_id) ==
    [db |-> [d EXCEPT !.todos = {t \in @ : t.list_id # list_id}],
     res |-> NoneRes]

\* DELETE FROM todos WHERE list_id = %s AND id = %s
Db_delete_todo_from_list(d, list_id, todo_id) ==
    [db |-> [d EXCEPT !.todos =
                {t \in @ : ~(t.list_id = list_id /\ t.id = todo_id)}],
     res |-> NoneRes]

\* UPDATE todos SET completed = True ..., new_status left out
Db_update_todo_status_true(d, list_id, todo_id, new_status) ==
    [db |-> [d EXCEPT !.todos =
                {IF t.list_id = list_id /\ t.id = todo_id
                 THEN [t EXCEPT !.completed = TRUE] ELSE t : t \in @}],
     res |-> NoneRes]

\* UPDATE todos SET completed = %s WHERE list_id = %s and id = %s
Db_update_todo_status(d, list_id, todo_id, new_status) ==
    [db |-> [d EXCEPT !.todos =
                {IF t.list_id = list_id /\ t.id = todo_id
                 THEN [t EXCEPT !.completed = new_status] ELSE t : t \in @}],
     res |-> NoneRes]

\* UPDATE todos SET completed = True, the WHERE clause left out
Db_mark_all_todos_completed_no_where(d, list_id) ==
    [db |-> [d EXCEPT !.todos = {[t EXCEPT !.completed = TRUE] : t \in @}],
     res |-> NoneRes]

\* UPDATE todos SET completed = True WHERE list_id = %s
Db_mark_all_todos_completed(d, list_id) ==
    [db |-> [d EXCEPT !.todos =
                {IF t.list_id = list_id
                 THEN [t EXCEPT !.completed = TRUE] ELSE t : t \in @}],
     res |-> NoneRes]

(***************************************************************************)
(* SessionPersistence.  A uuid4() token is represented by the ordinal of   *)
(* its draw, so that tokens are fresh and ordered by creation.             *)
(***************************************************************************)
EmptySess == [lists |-> <<>>, n |-> 0]

SessHas(s, list_id) == \E i \in DOMAIN s.lists : s.lists[i].id = list_id

\* index of the first list with this id (find_list's next(found, None))
SessIndex(s, list_id) ==
    CHOOSE i \in DOMAIN s.lists :
        /\ s.lists[i].id = list_id
        /\ \A j \in 1..(i - 1) : s.lists[j].id # list_id

Sess_find_list(s, list_id) ==
    IF SessHas(s, list_id) THEN Ok({s.lists[SessIndex(s, list_id)]}) ELSE NoneRes

Sess_all_lists(s) == Ok(Range(s.lists))

Sess_create_new_list(s, title) ==
    [sess |-> [lists |-> Append(s.lists,
                          [id |-> s.n + 1, title |-> title, todos |-> <<>>]),
               n |-> s.n + 1],
     res |-> NoneRes]

Sess_update_list_by_id(s, id, new_title) ==
    IF SessHas(s, id)
    THEN [sess |-> [s EXCEPT !.lists[SessIndex(s, id)].title = new_title],
          res |-> NoneRes]
    ELSE [sess |-> s, res |-> NoneRes]

Sess_delete_list(s, id) ==
    [sess |-> [s EXCEPT !.lists = SelectSeq(@, LAMBDA l : l.id # id)],
     res |-> NoneRes]

\* lst is None for an unknown list: lst['todos'] raises TypeError
Sess_create_new_todo(s, list_id, todo_title) ==
    IF ~SessHas(s, list_id)
    THEN [sess |-> s, res |-> Raised("TypeError")]
    ELSE [sess |-> [s EXCEPT !.lists[SessIndex(s, list_id)].todos =
                        Append(@, [id |-> s.n + 1, title |-> todo_title,
                                   completed |-> FALSE]),
                    !.n = @ + 1],
          res |-> NoneRes]

Sess_delete_todo_from_list(s, list_id, todo_id) ==
    IF ~SessHas(s, list_id)
    THEN [sess |-> s, res |-> Raised("TypeError")]
    ELSE [sess |-> [s EXCEPT !.lists[SessIndex(s, list_id)].todos =
                        SelectSeq(@, LAMBDA t : t.id # todo_id)],
          res |-> NoneRes]

\* next(...) without a default raises StopIteration when no todo matches
Sess_update_todo_status(s, list_id, todo_id, new_status) ==
    IF ~SessHas(s, list_id)
    THEN [sess |-> s, res |-> Raised("TypeError")]
    ELSE LET i  == SessIndex(s, list_id)
             ts == s.lists[i].todos
         IN  IF ~ \E k \in DOMAIN ts : ts[k].id = todo_id
             THEN [sess |-> s, res |-> Raised("StopIteration")]
             ELSE LET k == CHOOSE k \in DOMAIN ts :
                              /\ ts[k].id = todo_id
                              /\ \A j \in 1..(k - 1) : ts[j].id # todo_id
                  IN  [sess |-> [s EXCEPT !.lists[i].todos[k].completed = new_status],
                       res |-> NoneRes]

Sess_mark_all_todos_completed(s, list_id) ==
    IF ~SessHas(s, list_id)
    THEN [sess |-> s, res |-> Raised("TypeError")]
    ELSE [sess |-> [s EXCEPT !.lists[SessIndex(s, list_id)].todos =
                        [k \in DOMAIN @ |-> [@[k] EXCEPT !.completed = TRUE]]],
          res |-> NoneRes]

(***************************************************************************)
(* The storage operations as steps.  An input names a list by its          *)
(* position in order of creation and a todo by <<position of its list,     *)
(* position in that list>>, which each store resolves to its own id (a     *)
(* serial integer, a uuid token).  Position 0 resolves to id 0, which no   *)
(* list and no todo has.                                                   *)
(***************************************************************************)
DbListAt(d, k) ==
    IF k \in 1..Cardinality(d.lists) THEN ById(d.lists)[k].id ELSE 0

DbTodoAt(d, r) ==
    LET ts == ById(Db_find_todos_for_list(d, DbListAt(d, r[1])))
    IN  IF r[2] \in DOMAIN ts THEN ts[r[2]].id ELSE 0

SessListAt(s, k) == IF k \in DOMAIN s.lists THEN s.lists[k].id ELSE 0

SessTodoAt(s, r) ==
    IF r[1] \in DOMAIN s.lists /\ r[2] \in DOMAIN s.lists[r[1]].todos
    THEN s.lists[r[1]].todos[r[2]].id ELSE 0

Max(a, b) == IF a >= b THEN a ELSE b

ListRefs == 0..Max(Cardinality(db.lists), Len(sess.lists))

TodosAt(k) ==
    Max(Cardinality(Db_find_todos_for_list(db, DbListAt(db, k))),
        IF k \in DOMAIN sess.lists THEN Len(sess.lists[k].todos) ELSE 0)

NoTodo == <<0, 0>>

TodoRefs ==
    {NoTodo} \cup UNION {{<<k, j>> : j \in 1..TodosAt(k)} : k \in ListRefs \ {0}}

\* Monitor of the sequence create list, create todo on it, set its status:
\* stage 1 after create_new_list(t), 2 after create_new_todo(u) on that
\* list, 3 after update_todo_status(c) on that todo; 0 otherwise.
NoTrip == [stage |-> 0, dbList |-> 0, sessList |-> 0, dbTodo |-> 0,
           sessTodo |-> 0, t |-> <<>>, u |-> <<>>, c |-> FALSE]

\* outcome of a request: its kind and the message it flashed
Response(kind, flash) == [kind |-> kind, flash |-> flash]

IdleOp == [name |-> "idle"]

\* nothing of the other parts is under way
OthersIdle ==
    /\ arg = [kind |-> "none"]
    /\ ret = [fn |-> "none"]
    /\ procs = <<>>

UsesDb == mode \in {"db", "both"}
UsesSess == mode \in {"session", "both"}

InitVars ==
    /\ db = Db_init(EmptyDb)
    /\ sess = EmptySess
    /\ op = IdleOp
    /\ dbRes = Idle
    /\ sessRes = Idle
    /\ resp = Response("none", "")
    /\ calls = <<>>
    /\ trip = NoTrip
    /\ made = [lists |-> 0, todos |-> 0]
    /\ OthersIdle

\* a storage operation and the ids its inputs resolve to in each store
StoreOp(name, k, r, title, status) ==
    [name |-> name, dbList |-> DbListAt(db, k), sessList |-> SessListAt(sess, k),
     dbTodo |-> DbTodoAt(db, r), sessTodo |-> SessTodoAt(sess, r),
     title |-> title, status |-> status]

\* a storage operation applied to the variant(s) under operation; the caller
\* makes one call at a time
Both(o, x, y, tr, m) ==
    /\ op = IdleOp
    /\ op' = o
    /\ db' = IF UsesDb THEN x.db ELSE db
    /\ dbRes' = IF UsesDb THEN x.res ELSE Idle
    /\ sess' = IF UsesSess THEN y.sess ELSE sess
    /\ sessRes' = IF UsesSess THEN y.res ELSE Idle
    /\ trip' = tr
    /\ made' = m
    /\ UNCHANGED <<resp, calls, mode, others>>

Read(o, rx, ry) ==
    /\ op = IdleOp
    /\ op' = o
    /\ dbRes' = IF UsesDb THEN rx ELSE Idle
    /\ sessRes' = IF UsesSess THEN ry ELSE Idle
    /\ UNCHANGED <<db, sess, trip, resp, calls, mode, made, others>>

\* did the operation return normally on every variant under operation
Returned(x, y) ==
    /\ UsesDb => x.res.kind = "none"
    /\ UsesSess => y.res.kind = "none"

Store_all_lists ==
    Read(StoreOp("all_lists", 0, NoTodo, <<>>, FALSE),
         Db_all_lists(db), Sess_all_lists(sess))

Store_find_list(k) ==
    Read(StoreOp("find_list", k, NoTodo, <<>>, FALSE), Db_find_list(db, DbListAt(db, k)),
         Sess_find_list(sess, SessListAt(sess, k)))

Store_create_new_list(t) ==
    /\ made.lists < MaxListSeq
    /\ LET x == Db_create_new_list(db, t)
           y == Sess_create_new_list(sess, t)
           tr == IF Returned(x, y)
                 THEN [NoTrip EXCEPT !.stage = 1, !.t = t,
                         !.dbList = IF UsesDb THEN x.db.lseq ELSE 0,
                         !.sessList = IF UsesSess THEN y.sess.n ELSE 0]
                 ELSE NoTrip
       IN  Both(StoreOp("create_new_list", 0, NoTodo, t, FALSE), x, y, tr, [made EXCEPT !.lists = @ + 1])

Store_update_list_by_id(k, t) ==
    Both(StoreOp("update_list_by_id", k, NoTodo, t, FALSE),
         Db_update_list_by_id(db, DbListAt(db, k), t),
         Sess_update_list_by_id(sess, SessListAt(sess, k), t), NoTrip, made)

Store_delete_list(k) ==
    Both(StoreOp("delete_list", k, NoTodo, <<>>, FALSE),
         Db_delete_list(db, DbListAt(db, k)),
         Sess_delete_list(sess, SessListAt(sess, k)), NoTrip, made)

Store_create_new_todo(k, u) ==
    /\ made.todos < MaxTodoSeq
    /\ LET x == Db_create_new_todo(db, DbListAt(db, k), u)
           y == Sess_create_new_todo(sess, SessListAt(sess, k), u)
           tr == IF /\ trip.stage = 1
                    /\ UsesDb => DbListAt(db, k) = trip.dbList
                    /\ UsesSess => SessListAt(sess, k) = trip.sessList
                    /\ Returned(x, y)
                 THEN [trip EXCEPT !.stage = 2, !.u = u,
                         !.dbTodo = IF UsesDb THEN x.db.tseq ELSE 0,
                         !.sessTodo = IF UsesSess THEN y.sess.n ELSE 0]
                 ELSE NoTrip
       IN  Both(StoreOp("create_new_todo", k, NoTodo, u, FALSE), x, y, tr, [made EXCEPT !.todos = @ + 1])

Store_delete_todo_from_list(k, r) ==
    Both(StoreOp("delete_todo_from_list", k, r, <<>>, FALSE),
         Db_delete_todo_from_list(db, DbListAt(db, k), DbTodoAt(db, r)),
         Sess_delete_todo_from_list(sess, SessListAt(sess, k), SessTodoAt(sess, r)),
         NoTrip, made)

Store_update_todo_status(k, r, c) ==
    LET x == Db_update_todo_status(db, DbListAt(db, k), DbTodoAt(db, r), c)
        y == Sess_update_todo_status(sess, SessListAt(sess, k), SessTodoAt(sess, r), c)
        tr == IF /\ trip.stage \in {2, 3}
                 /\ UsesDb => /\ DbListAt(db, k) = trip.dbList
                              /\ DbTodoAt(db, r) = trip.dbTodo
                 /\ UsesSess => /\ SessListAt(sess, k) = trip.sessList
                                /\ SessTodoAt(sess, r) = trip.sessTodo
                 /\ Returned(x, y)
              THEN [trip EXCEPT !.stage = 3, !.c = c]
              ELSE NoTrip
    IN  Both(StoreOp("update_todo_status", k, r, <<>>, c), x, y, tr, made)

Store_mark_all_todos_completed(k) ==
    Both(StoreOp("mark_all_todos_completed", k, NoTodo, <<>>, FALSE),
         Db_mark_all_todos_completed(db, DbListAt(db, k)),
         Sess_mark_all_todos_completed(sess, SessListAt(sess, k)), NoTrip, made)

StAllLists == Store_all_lists
StFindList == \E k \in ListRefs : Store_find_list(k)
StCreateList == \E t \in StoreListTitles : Store_create_new_list(t)
StUpdateList == \E k \in ListRefs, t \in StoreListTitles : Store_update_list_by_id(k, t)
StDeleteList == \E k \in ListRefs : Store_delete_list(k)
StCreateTodo == \E k \in ListRefs, u \in StoreTodoTitles : Store_create_new_todo(k, u)
StDeleteTodo == \E k \in ListRefs, r \in TodoRefs : Store_delete_todo_from_list(k, r)
StUpdateTodo ==
    \E k \in ListRefs, r \in TodoRefs, c \in BOOLEAN : Store_update_todo_status(k, r, c)
StMarkAll == \E k \in ListRefs : Store_mark_all_todos_completed(k)

\* the call returns (or raises) to the caller, which may then call again
StReturn ==
    /\ op # IdleOp
    /\ op' = IdleOp
    /\ dbRes' = Idle
    /\ sessRes' = Idle
    /\ UNCHANGED <<db, sess, resp, calls, trip, mode, made, others>>

NextStore ==
    \/ StAllLists
    \/ StFindList
    \/ StCreateList
    \/ StUpdateList
    \/ StDeleteList
    \/ StCreateTodo
    \/ StDeleteTodo
    \/ StUpdateTodo
    \/ StMarkAll
    \/ StReturn

\* the nine storage operations applied to both variants, step by step
InitBoth == InitVars /\ mode = "both"
SpecBoth == InitBoth /\ [][NextStore]_vars

\* the nine storage operations applied to one variant, either of the two
InitStore == InitVars /\ mode \in {"db", "session"}
SpecStore == InitStore /\ [][NextStore]_vars

(***************************************************************************)
(* todos/utils.py                                                          *)
(***************************************************************************)
None_ == "None"

\* error_for_list_title without its uniqueness test
error_for_list_title_no_unique(title, lists) ==
    IF ~(1 <= Len(title) /\ Len(title) <= MaxTitleLen)
    THEN "The title must be between 1 and 100 characters"
    ELSE None_

\* error_for_list_title testing the length before the uniqueness
error_for_list_title_length_first(title, lists) ==
    IF ~(1 <= Len(title) /\ Len(title) <= MaxTitleLen)
    THEN "The title must be between 1 and 100 characters"
    ELSE IF \E lst \in lists : lst.title = title
    THEN "The title must be unique."
    ELSE None_

error_for_list_title(title, lists) ==
    IF \E lst \in lists : lst.title = title
    THEN "The title must be unique."
    ELSE IF ~(1 <= Len(title) /\ Len(title) <= MaxTitleLen)
    THEN "The title must be between 1 and 100 characters"
    ELSE None_

\* error_for_todo testing the upper limit alone
error_for_todo_no_min(title) ==
    IF ~(Len(title) <= MaxTitleLen)
    THEN "Todo title must be between 1 and 100 characters"
    ELSE None_

error_for_todo(title) ==
    IF ~(1 <= Len(title) /\ Len(title) <= MaxTitleLen)
    THEN "Todo title must be between 1 and 100 characters"
    ELSE None_

\* the todos with this id (find_todo_by_id returns the first, None if none)
find_todo_by_id(todo_id, todos) == {todo \in todos : todo.id = todo_id}

\* For the helpers below a todo is [id, title, completed] and a list is
\* [id, title, todos], todos a sequence (a Python list) of todos.

\* sum(1 for todo in lst['todos'] if not todo['completed'])
todos_remaining(lst) ==
    Len(SelectSeq(lst.todos, LAMBDA todo : ~todo.completed))

\* is_list_completed without the test that the list has todos
is_list_completed_no_len(lst) == todos_remaining(lst) = 0

is_list_completed(lst) == Len(lst.todos) > 0 /\ todos_remaining(lst) = 0

is_todo_completed(todo) == todo.completed

\* mark_all_completed sets the flag of every todo of lst, in place
mark_all_completed(lst) ==
    [lst EXCEPT !.todos = [k \in DOMAIN @ |-> [@[k] EXCEPT !.completed = TRUE]]]

\* str.lower() on the characters of the model's alphabet
LowerChar(c) == CASE c = "A" -> "a" [] c = "B" -> "b" [] OTHER -> c

Lower(s) == [i \in DOMAIN s |-> LowerChar(s[i])]

\* ord(): the code point of a character of the model's alphabet
CodePoint(c) ==
    CASE c = " " -> 32 [] c = "A" -> 65 [] c = "B" -> 66
      [] c = "a" -> 97 [] c = "b" -> 98 [] c = "m" -> 109 [] c = "x" -> 120

\* s < t on strings: by code point at the first difference, a proper
\* prefix before the longer string
RECURSIVE StrLess(_, _)
StrLess(s, t) ==
    IF t = <<>> THEN FALSE
    ELSE IF s = <<>> THEN TRUE
    ELSE IF Head(s) = Head(t) THEN StrLess(Tail(s), Tail(t))
    ELSE CodePoint(Head(s)) < CodePoint(Head(t))

\* key=lambda item: item['title'].lower()
SortKey(item) == Lower(item.title)

\* sorted() comparing the titles as they are
RECURSIVE sorted_no_lower(_)
sorted_no_lower(items) ==
    IF items = <<>> THEN <<>>
    ELSE LET n    == Len(items)
             item == items[n]
             done == sorted_no_lower(SubSeq(items, 1, n - 1))
         IN  SelectSeq(done, LAMBDA e : ~StrLess(item.title, e.title))
                 \o <<item>>
                 \o SelectSeq(done, LAMBDA e : StrLess(item.title, e.title))

\* sorted() placing an item before the earlier items of the same key
RECURSIVE sorted_unstable(_)
sorted_unstable(items) ==
    IF items = <<>> THEN <<>>
    ELSE LET n    == Len(items)
             item == items[n]
             done == sorted_unstable(SubSeq(items, 1, n - 1))
         IN  SelectSeq(done, LAMBDA e : StrLess(SortKey(e), SortKey(item)))
                 \o <<item>>
                 \o SelectSeq(done, LAMBDA e : ~StrLess(SortKey(e), SortKey(item)))

\* sorted(items, key=...): ascending by key, stable.  Each item in turn is
\* placed after the items already placed whose key is not greater.
RECURSIVE sorted(_)
sorted(items) ==
    IF items = <<>> THEN <<>>
    ELSE LET n    == Len(items)
             item == items[n]
             done == sorted(SubSeq(items, 1, n - 1))
         IN  SelectSeq(done, LAMBDA e : ~StrLess(SortKey(item), SortKey(e)))
                 \o <<item>>
                 \o SelectSeq(done, LAMBDA e : StrLess(SortKey(item), SortKey(e)))

\* select_completed(item), select_completed the function passed to
\* sort_items, known here by its name
Selects(select_completed, item) ==
    CASE select_completed = "is_todo_completed" -> is_todo_completed(item)
      [] select_completed = "is_list_completed" -> is_list_completed(item)

sort_items(items, select_completed) ==
    LET sorted_items     == sorted(items)
        incomplete_items == SelectSeq(sorted_items,
                                      LAMBDA item : ~Selects(select_completed, item))
        complete_items   == SelectSeq(sorted_items,
                                      LAMBDA item : Selects(select_completed, item))
    IN  incomplete_items \o complete_items

(***************************************************************************)
(* app.py.  Every request first runs load_storage, which constructs        *)
(* DatabasePersistence; a handler then ends in a response:                 *)
(* redirect, render (a page, with the flashed error if any), 404           *)
(* (NotFound raised) or 500 (another exception left the handler).          *)
(***************************************************************************)
ListIds == 0..MaxListSeq       \* <int:list_id>
TodoIds == 0..MaxTodoSeq       \* <int:todo_id>
FormFlags == {"True", "False"} \* request.form['completed']

load_storage == Db_init(db)

Request(name, list_id, todo_id, raw, completed) ==
    [name |-> name, list_id |-> list_id, todo_id |-> todo_id, raw |-> raw,
     completed |-> completed]

\* a request is handled when no other is under way
Respond(o, d, r, cs) ==
    /\ op = IdleOp
    /\ op' = o
    /\ db' = d
    /\ resp' = r
    /\ calls' = cs
    /\ UNCHANGED <<sess, dbRes, sessRes, trip, mode, made, others>>

\* require_list: g.storage.find_list(list_id), NotFound when it is falsy
require_list(d, list_id) ==
    LET r == Db_find_list(d, list_id)
    IN  IF r.kind = "error" THEN [kind |-> "500", lst |-> {}]
        ELSE IF r.kind = "none" THEN [kind |-> "404", lst |-> {}]
        ELSE [kind |-> "ok", lst |-> r.lists]

\* require_todo without the search for the todo
require_todo_no_search(d, list_id, todo_id) == require_list(d, list_id)

\* require_todo: require_list, then find_todo_by_id in the list's todos
require_todo(d, list_id, todo_id) ==
    LET g == require_list(d, list_id)
    IN  IF g.kind # "ok" THEN g
        ELSE IF \A lst \in g.lst : find_todo_by_id(todo_id, lst.todos) = {}
        THEN [kind |-> "404", lst |-> {}]
        ELSE g

index ==
    Respond(Request("index", 0, 0, <<>>, ""), load_storage,
            Response("redirect", ""), <<>>)

get_lists ==
    Respond(Request("get_lists", 0, 0, <<>>, ""), load_storage,
            Response("render", ""), <<"all_lists">>)

add_todo_list ==
    Respond(Request("add_todo_list", 0, 0, <<>>, ""), load_storage,
            Response("render", ""), <<>>)

create_list(raw) ==
    LET o     == Request("create_list", 0, 0, raw, "")
        d     == load_storage
        title == Strip(raw)
        error == error_for_list_title(title, Db_all_lists(d).lists)
        x     == Db_create_new_list(d, title)
    IN  IF error # None_
        THEN Respond(o, d, Response("render", error), <<"all_lists">>)
        ELSE /\ d.lseq < MaxListSeq
             /\ Respond(o, x.db,
                        IF x.res.kind = "error" THEN Response("500", x.res.err)
                        ELSE Response("redirect", "The list has been created."),
                        <<"all_lists", "create_new_list">>)

show_list(list_id) ==
    LET o == Request("show_list", list_id, 0, <<>>, "")
        d == load_storage
        g == require_list(d, list_id)
    IN  Respond(o, d,
                IF g.kind # "ok" THEN Response(g.kind, "") ELSE Response("render", ""),
                <<"find_list">>)

\* create_todo flashing the error without returning
create_todo_no_return(list_id, raw) ==
    LET o          == Request("create_todo", list_id, 0, raw, "")
        d          == load_storage
        g          == require_list(d, list_id)
        todo_title == Strip(raw)
        error      == error_for_todo(todo_title)
        x          == Db_create_new_todo(d, list_id, todo_title)
    IN  IF g.kind # "ok"
        THEN Respond(o, d, Response(g.kind, ""), <<"find_list">>)
        ELSE /\ d.tseq < MaxTodoSeq
             /\ Respond(o, x.db,
                        IF x.res.kind = "error" THEN Response("500", x.res.err)
                        ELSE IF error # None_ THEN Response("render", error)
                        ELSE Response("redirect", "The todo was added."),
                        <<"find_list", "create_new_todo">>)

create_todo(list_id, raw) ==
    LET o          == Request("create_todo", list_id, 0, raw, "")
        d          == load_storage
        g          == require_list(d, list_id)
        todo_title == Strip(raw)
        error      == error_for_todo(todo_title)
        x          == Db_create_new_todo(d, list_id, todo_title)
    IN  IF g.kind # "ok"
        THEN Respond(o, d, Response(g.kind, ""), <<"find_list">>)
        ELSE IF error # None_
        THEN Respond(o, d, Response("render", error), <<"find_list">>)
        ELSE /\ d.tseq < MaxTodoSeq
             /\ Respond(o, x.db,
                        IF x.res.kind = "error" THEN Response("500", x.res.err)
                        ELSE Response("redirect", "The todo was added."),
                        <<"find_list", "create_new_todo">>)

update_todo_status(list_id, todo_id, completed) ==
    LET o            == Request("update_todo_status", list_id, todo_id, <<>>, completed)
        d            == load_storage
        g            == require_todo(d, list_id, todo_id)
        is_completed == (completed = "True")
        x            == Db_update_todo_status(d, list_id, todo_id, is_completed)
    IN  IF g.kind # "ok"
        THEN Respond(o, d, Response(g.kind, ""), <<"find_list">>)
        ELSE Respond(o, x.db, Response("redirect", "The todo has been updated."),
                     <<"find_list", "update_todo_status">>)

delete_todo(list_id, todo_id) ==
    LET o == Request("delete_todo", list_id, todo_id, <<>>, "")
        d == load_storage
        g == require_todo(d, list_id, todo_id)
        x == Db_delete_todo_from_list(d, list_id, todo_id)
    IN  IF g.kind # "ok"
        THEN Respond(o, d, Response(g.kind, ""), <<"find_list">>)
        ELSE Respond(o, x.db, Response("redirect", "The todo has been deleted."),
                     <<"find_list", "delete_todo_from_list">>)

mark_all_todos_completed(list_id) ==
    LET o == Request("mark_all_todos_completed", list_id, 0, <<>>, "")
        d == load_storage
        g == require_list(d, list_id)
        x == Db_mark_all_todos_completed(d, list_id)
    IN  IF g.kind # "ok"
        THEN Respond(o, d, Response(g.kind, ""), <<"find_list">>)
        ELSE Respond(o, x.db, Response("redirect", "All todos have been updated."),
                     <<"find_list", "mark_all_todos_completed">>)

edit_list(list_id) ==
    LET o == Request("edit_list", list_id, 0, <<>>, "")
        d == load_storage
        g == require_list(d, list_id)
    IN  Respond(o, d,
                IF g.kind # "ok" THEN Response(g.kind, "") ELSE Response("render", ""),
                <<"find_list">>)

delete_list(list_id) ==
    LET o == Request("delete_list", list_id, 0, <<>>, "")
        d == load_storage
        g == require_list(d, list_id)
        x == Db_delete_list(d, list_id)
    IN  IF g.kind # "ok"
        THEN Respond(o, d, Response(g.kind, ""), <<"find_list">>)
        ELSE Respond(o, x.db, Response("redirect", "The list has been deleted."),
                     <<"find_list", "delete_list">>)

update_list(list_id, raw) ==
    LET o     == Request("update_list", list_id, 0, raw, "")
        d     == load_storage
        g     == require_list(d, list_id)
        title == Strip(raw)
        error == error_for_list_title(title, Db_all_lists(d).lists)
        x     == Db_update_list_by_id(d, list_id, title)
    IN  IF g.kind # "ok"
        THEN Respond(o, d, Response(g.kind, ""), <<"find_list">>)
        ELSE IF error # None_
        THEN Respond(o, d, Response("render", error), <<"find_list", "all_lists">>)
        ELSE Respond(o, x.db,
                     IF x.res.kind = "error" THEN Response("500", x.res.err)
                     ELSE Response("redirect", "The list has been updated."),
                     <<"find_list", "all_lists", "update_list_by_id">>)

\* the response is sent and the request context torn down
teardown ==
    /\ op # IdleOp
    /\ op' = IdleOp
    /\ resp' = Response("none", "")
    /\ calls' = <<>>
    /\ UNCHANGED <<db, sess, dbRes, sessRes, trip, mode, made, others>>

ReqIndex == index
ReqGetLists == get_lists
ReqAddTodoList == add_todo_list
ReqCreateList == \E raw \in ListFormTitles : create_list(raw)
ReqShowList == \E list_id \in ListIds : show_list(list_id)
ReqCreateTodo ==
    \E list_id \in ListIds, raw \in TodoFormTitles : create_todo(list_id, raw)
ReqUpdateTodoStatus ==
    \E list_id \in ListIds, todo_id \in TodoIds, completed \in FormFlags :
        update_todo_status(list_id, todo_id, completed)
ReqDeleteTodo ==
    \E list_id \in ListIds, todo_id \in TodoIds : delete_todo(list_id, todo_id)
ReqMarkAll == \E list_id \in ListIds : mark_all_todos_completed(list_id)
ReqEditList == \E list_id \in ListIds : edit_list(list_id)
ReqDeleteList == \E list_id \in ListIds : delete_list(list_id)
ReqUpdateList ==
    \E list_id \in ListIds, raw \in ListFormTitles : update_list(list_id, raw)

ReqEnd == teardown

NextApp ==
    \/ ReqIndex
    \/ ReqGetLists
    \/ ReqAddTodoList
    \/ ReqCreateList
    \/ ReqShowList
    \/ ReqCreateTodo
    \/ ReqUpdateTodoStatus
    \/ ReqDeleteTodo
    \/ ReqMarkAll
    \/ ReqEditList
    \/ ReqDeleteList
    \/ ReqUpdateList
    \/ ReqEnd

\* the requests of app.py, one at a time, on a fresh database
InitApp ==
    /\ db = EmptyDb
    /\ sess = EmptySess
    /\ op = IdleOp
    /\ dbRes = Idle
    /\ sessRes = Idle
    /\ resp = Response("none", "")
    /\ calls = <<>>
    /\ trip = NoTrip
    /\ made = [lists |-> 0, todos |-> 0]
    /\ OthersIdle
    /\ mode = "db"

SpecApp == InitApp /\ [][NextApp]_vars

(***************************************************************************)
(* todos/utils.py called on its own.  The arguments are drawn at the       *)
(* start: a sequence of todos (as show_list sorts them), a sequence of     *)
(* lists with their todos (as get_lists sorts them), or a title with the   *)
(* existing lists (as create_list and update_list validate it).            *)
(***************************************************************************)
MaxItems == 3       \* number of todos in a sequence of todos
MaxLists == 2       \* number of lists in a sequence of lists
MaxExisting == 2    \* number of existing lists a title is validated against

SortTitles == {<<"b">>, <<"B">>, <<"a", "b">>}
CheckedTitles == {<<>>, <<"b">>, <<"B">>, Long100, Long101}

TodoDone == [id |-> 1, title |-> TM, completed |-> TRUE]
TodoOpen == [id |-> 2, title |-> TM, completed |-> FALSE]
ListTodos == {<<>>, <<TodoDone>>, <<TodoOpen>>, <<TodoDone, TodoOpen>>}

\* sequences of n items with the ids 1..n, their other fields from `fields`
ItemsOf(n, fields) ==
    {[i \in 1..n |-> [id |-> i] @@ f[i]] : f \in [1..n -> fields]}

TodoArgs ==
    UNION {ItemsOf(n, [title : SortTitles, completed : BOOLEAN]) : n \in 0..MaxItems}

ListArgs ==
    UNION {ItemsOf(n, [title : SortTitles, todos : ListTodos]) : n \in 0..MaxLists}

ExistingArgs ==
    UNION {ItemsOf(n, [title : CheckedTitles, todos : {<<>>}]) : n \in 0..MaxExisting}

InitUtils ==
    /\ db = EmptyDb
    /\ sess = EmptySess
    /\ op = IdleOp
    /\ dbRes = Idle
    /\ sessRes = Idle
    /\ resp = Response("none", "")
    /\ calls = <<>>
    /\ trip = NoTrip
    /\ made = [lists |-> 0, todos |-> 0]
    /\ mode = "none"
    /\ \/ \E items \in TodoArgs : arg = [kind |-> "todos", items |-> items]
       \/ \E items \in ListArgs : arg = [kind |-> "lists", items |-> items]
       \/ \E items \in ExistingArgs, title \in CheckedTitles :
             arg = [kind |-> "title", items |-> items, title |-> title]
    /\ ret = [fn |-> "none"]
    /\ procs = <<>>

\* the completion predicate that goes with the items at hand
Sorted(items) ==
    IF arg.kind = "todos" THEN sort_items(items, "is_todo_completed")
    ELSE sort_items(items, "is_list_completed")

\* sort_items(lst['todos'], is_todo_completed), or
\* sort_items(g.storage.all_lists(), is_list_completed)
UtSortItems ==
    /\ arg.kind \in {"todos", "lists"}
    /\ ret' = [fn |-> "sort_items", items |-> arg.items, value |-> Sorted(arg.items)]
    /\ UNCHANGED <<storeVars, arg, procs>>

\* sort_items on what sort_items returned
UtSortAgain ==
    /\ ret.fn = "sort_items"
    /\ ret' = [fn |-> "sort_items", items |-> ret.value, value |-> Sorted(ret.value)]
    /\ UNCHANGED <<storeVars, arg, procs>>

UtIsListCompleted ==
    /\ arg.kind = "lists"
    /\ \E i \in DOMAIN arg.items :
          ret' = [fn |-> "is_list_completed", lst |-> arg.items[i],
                  value |-> is_list_completed(arg.items[i])]
    /\ UNCHANGED <<storeVars, arg, procs>>

UtTodosRemaining ==
    /\ arg.kind = "lists"
    /\ \E i \in DOMAIN arg.items :
          ret' = [fn |-> "todos_remaining", lst |-> arg.items[i],
                  value |-> todos_remaining(arg.items[i])]
    /\ UNCHANGED <<storeVars, arg, procs>>

UtMarkAllCompleted ==
    /\ arg.kind = "lists"
    /\ \E i \in DOMAIN arg.items :
          /\ arg' = [arg EXCEPT !.items[i] = mark_all_completed(@)]
          /\ ret' = [fn |-> "mark_all_completed", lst |-> arg.items[i],
                     value |-> None_]
    /\ UNCHANGED <<storeVars, procs>>

UtErrorForListTitle ==
    /\ arg.kind = "title"
    /\ ret' = [fn |-> "error_for_list_title",
               value |-> error_for_list_title(arg.title, Range(arg.items))]
    /\ UNCHANGED <<storeVars, arg, procs>>

UtErrorForTodo ==
    /\ arg.kind = "title"
    /\ ret' = [fn |-> "error_for_todo", value |-> error_for_todo(arg.title)]
    /\ UNCHANGED <<storeVars, arg, procs>>

NextUtils ==
    \/ UtSortItems
    \/ UtSortAgain
    \/ UtIsListCompleted
    \/ UtTodosRemaining
    \/ UtMarkAllCompleted
    \/ UtErrorForListTitle
    \/ UtErrorForTodo

SpecUtils == InitUtils /\ [][NextUtils]_vars

(***************************************************************************)
(* DatabasePersistence step by step.  An operation runs its statements in  *)
(* connection scopes (with self._database_connect() as conn), one after    *)
(* another; a scope is four steps: connect, execute, the exit of "with     *)
(* connection" (commit, or rollback when the body raised) and the close    *)
(* of the finally clause.  A statement reads the committed store (READ     *)
(* COMMITTED) or what its own transaction wrote; what a transaction        *)
(* wrote is in its working copy tx until the commit.  A statement that     *)
(* writes waits while another client's transaction has written and is not  *)
(* yet ended, so what it finds is what it would find after that end.       *)
(***************************************************************************)
Clients == {"c1", "c2"}

Call(name, list_id, todo_id, title, status) ==
    [name |-> name, list_id |-> list_id, todo_id |-> todo_id,
     title |-> title, status |-> status]

NoCall == Call("none", 0, 0, <<>>, FALSE)

NoRequest == Request("idle", 0, 0, <<>>, "")

NoRow == [id |-> 0, title |-> <<>>]

\* a client that is doing nothing
IdleProc ==
    [req   |-> NoRequest,           \* the request being handled, if any
     resp  |-> Response("none", ""),
     did   |-> <<>>,                \* storage operations the request invoked
     call  |-> NoCall,              \* the storage operation under way
     pc    |-> "idle",
     scope |-> "main",              \* "main": the operation's own statements;
                                    \* "todos": _find_todos_for_list
     stmt  |-> 0,                   \* _setup_schema: the statement to run next
     open  |-> 0,                   \* connections open
     tx    |-> EmptyDb,             \* working copy of the transaction
     dirty |-> FALSE,               \* has the transaction written
     exc   |-> "",                  \* exception raised in the scope
     rows  |-> {},                  \* rows of lists the main scope fetched
     left  |-> {},                  \* rows whose todos are still to fetch
     cur   |-> NoRow,               \* row whose todos are being fetched
     got   |-> {},                  \* lists put together so far
     out   |-> Idle,                \* outcome of the operation
     seen  |-> {}]                  \* lists the store has held during a read

Reads == {"find_list", "all_lists"}

ListValues(d) == {Db_list_value(d, l) : l \in d.lists}

\* the SELECT COUNT(*) fetching 0 whether or not the table is there
TableCount_zero(d, name) == 0

\* SELECT COUNT(*) FROM information_schema.tables WHERE ... table_name = ...
TableCount(d, name) == IF name \in d.tables THEN 1 ELSE 0

\* CREATE TABLE name
CreateTable(d, name) ==
    IF name \in d.tables
    THEN [db |-> d, res |-> Raised("DuplicateTable")]
    ELSE [db |-> [d EXCEPT !.tables = @ \cup {name}], res |-> NoneRes]

\* The statement of an operation run on the store d its transaction sees:
\* the store as the transaction then has it, and the outcome.  An INSERT
\* that a constraint refuses has written its row before it raises; the
\* row is gone when the transaction is rolled back.
Statement(d, c) ==
    CASE c.name = "all_lists" -> [db |-> d, res |-> Ok(d.lists)]
      [] c.name = "find_list" ->
            [db |-> d,
             res |-> IF \E l \in d.lists : l.id = c.list_id
                     THEN Ok({l \in d.lists : l.id = c.list_id})
                     ELSE Raised("TypeError")]
      [] c.name = "create_new_list" ->
            LET x == Db_create_new_list(d, c.title)
            IN  IF x.res.err = "UniqueViolation"
                THEN [x EXCEPT !.db.lists =
                         @ \cup {[id |-> x.db.lseq, title |-> VarcharValue(c.title)]}]
                ELSE x
      [] c.name = "update_list_by_id" -> Db_update_list_by_id(d, c.list_id, c.title)
      [] c.name = "delete_list" -> Db_delete_list(d, c.list_id)
      [] c.name = "create_new_todo" ->
            LET x == Db_create_new_todo(d, c.list_id, c.title)
            IN  IF x.res.err = "ForeignKeyViolation"
                THEN [x EXCEPT !.db.todos =
                         @ \cup {[id |-> x.db.tseq, title |-> VarcharValue(c.title),
                                  completed |-> FALSE, list_id |-> c.list_id]}]
                ELSE x
      [] c.name = "delete_todo_from_list" ->
            Db_delete_todo_from_list(d, c.list_id, c.todo_id)
      [] c.name = "update_todo_status" ->
            Db_update_todo_status(d, c.list_id, c.todo_id, c.status)
      [] c.name = "mark_all_todos_completed" ->
            Db_mark_all_todos_completed(d, c.list_id)

\* "with connection:" committing also when the body raised
with_connection_always_commit(d, pr) == IF pr.dirty THEN pr.tx ELSE d

\* "with connection:" on exit: commit when the body ended normally,
\* rollback when it raised (values drawn from a sequence are not given back)
with_connection(d, pr) ==
    IF ~pr.dirty THEN d
    ELSE IF pr.exc = "" THEN pr.tx
    ELSE [d EXCEPT !.lseq = pr.tx.lseq, !.tseq = pr.tx.tseq]

\* connection.close() only when the body ended normally
connection_close_unless_raised(pr) ==
    IF pr.exc = "" THEN [pr EXCEPT !.open = @ - 1] ELSE pr

\* finally: connection.close()
connection_close(pr) == [pr EXCEPT !.open = @ - 1]

\* the operation returns or raises
Returns(pr, res) == [pr EXCEPT !.pc = "returned", !.out = res]

\* the next _find_todos_for_list(lst['id']) of the rows in left, in the
\* order the SELECT happened to return them; the result once none is left
Fetch(pr, left) ==
    IF left = {} THEN {Returns(pr, Ok(pr.got))}
    ELSE {[pr EXCEPT !.left = left, !.cur = r, !.scope = "todos", !.pc = "connect"]
            : r \in left}

\* the operation c is invoked
Invoke(pr, c, d) ==
    [pr EXCEPT !.call = c, !.pc = "connect", !.scope = "main", !.stmt = 1,
               !.exc = "", !.rows = {}, !.left = {}, !.cur = NoRow, !.got = {},
               !.out = Idle, !.did = Append(@, c.name),
               !.seen = IF c.name \in Reads THEN ListValues(d) ELSE {}]

\* a read under way takes note of the store a commit leaves
Watch(pr, d) ==
    IF pr.call.name \in Reads /\ pr.pc \notin {"idle", "returned"}
    THEN [pr EXCEPT !.seen = @ \cup ListValues(d)]
    ELSE pr

connFrame == <<sess, op, dbRes, sessRes, resp, calls, trip, mode, made, arg, ret>>

\* what the transaction of pr sees
View(pr) == IF pr.dirty THEN pr.tx ELSE db

NoOtherWriter(p) == \A q \in DOMAIN procs : q # p => ~procs[q].dirty

\* psycopg2.connect(...)
ConnConnect(p) ==
    /\ procs[p].pc = "connect"
    /\ procs' = [procs EXCEPT ![p].open = @ + 1, ![p].pc = "execute"]
    /\ UNCHANGED <<db, connFrame>>

\* the transaction has run a statement that writes, with outcome x
Wrote(pr, x, next) ==
    [pr EXCEPT !.tx = x.db, !.dirty = TRUE,
               !.exc = IF x.res.kind = "error" THEN x.res.err ELSE "",
               !.stmt = next,
               !.pc = IF x.res.kind = "error" \/ next > 4 THEN "exit" ELSE "execute"]

\* _setup_schema: the statements 1..4 are SELECT COUNT for lists, CREATE
\* TABLE lists, SELECT COUNT for todos, CREATE TABLE todos, each CREATE
\* run only when the COUNT before it fetched 0
ConnExecSetup(p) ==
    LET pr == procs[p]
        v  == View(pr)
    IN  /\ pr.pc = "execute"
        /\ pr.call.name = "setup_schema"
        /\ \/ /\ pr.stmt = 1
              /\ procs' = [procs EXCEPT ![p].stmt =
                              IF TableCount(v, "lists") = 0 THEN 2 ELSE 3]
           \/ /\ pr.stmt = 2
              /\ NoOtherWriter(p)
              /\ procs' = [procs EXCEPT ![p] = Wrote(pr, CreateTable(v, "lists"), 3)]
           \/ /\ pr.stmt = 3
              /\ procs' = IF TableCount(v, "todos") = 0
                          THEN [procs EXCEPT ![p].stmt = 4]
                          ELSE [procs EXCEPT ![p].pc = "exit"]
           \/ /\ pr.stmt = 4
              /\ NoOtherWriter(p)
              /\ procs' = [procs EXCEPT ![p] = Wrote(pr, CreateTable(v, "todos"), 5)]
        /\ UNCHANGED <<db, connFrame>>

\* _find_todos_for_list: SELECT * FROM todos WHERE list_id = %s, fetchall()
ConnExecTodos(p) ==
    LET pr == procs[p]
    IN  /\ pr.pc = "execute"
        /\ pr.scope = "todos"
        /\ procs' = [procs EXCEPT
                        ![p].got = @ \cup {[id |-> pr.cur.id, title |-> pr.cur.title,
                                            todos |-> Db_find_todos_for_list(
                                                          View(pr), pr.cur.id)]},
                        ![p].pc = "exit"]
        /\ UNCHANGED <<db, connFrame>>

\* cursor.execute(query, ...) of the nine operations, with the fetch of
\* all_lists and the dict(cursor.fetchone()) of find_list
ConnExecMain(p) ==
    LET pr == procs[p]
        x  == Statement(View(pr), pr.call)
    IN  /\ pr.pc = "execute"
        /\ pr.scope = "main"
        /\ pr.call.name # "setup_schema"
        /\ IF pr.call.name \in Reads
           THEN procs' = [procs EXCEPT
                             ![p].rows = x.res.lists,
                             ![p].exc = IF x.res.kind = "error" THEN x.res.err ELSE "",
                             ![p].pc = "exit"]
           ELSE /\ NoOtherWriter(p)
                /\ procs' = [procs EXCEPT ![p] = Wrote(pr, x, 5)]
        /\ UNCHANGED <<db, connFrame>>

\* the exit of "with connection:"
ConnExit(p) ==
    LET pr == procs[p]
        d  == with_connection(db, pr)
    IN  /\ pr.pc = "exit"
        /\ db' = d
        /\ procs' = [q \in DOMAIN procs |->
                        Watch(IF q = p
                              THEN [pr EXCEPT !.pc = "close", !.dirty = FALSE,
                                              !.tx = EmptyDb]
                              ELSE procs[q], d)]
        /\ UNCHANGED connFrame

\* what follows the scope: the exception goes on to the caller; find_list
\* and all_lists fetch the todos of the rows they got; the others return
AfterScope(pr) ==
    IF pr.exc # "" THEN {Returns(pr, Raised(pr.exc))}
    ELSE IF pr.scope = "todos" THEN Fetch(pr, pr.left \ {pr.cur})
    ELSE IF pr.call.name \in Reads THEN Fetch(pr, pr.rows)
    ELSE {Returns(pr, NoneRes)}

\* finally: connection.close(), and on with the operation
ConnClose(p) ==
    /\ procs[p].pc = "close"
    /\ \E nxt \in AfterScope(connection_close(procs[p])) :
          procs' = [procs EXCEPT ![p] = nxt]
    /\ UNCHANGED <<db, connFrame>>

(***************************************************************************)
(* One caller constructing DatabasePersistence and invoking its            *)
(* operations, one at a time, with any arguments.                          *)
(***************************************************************************)
SetupCall == Call("setup_schema", 0, 0, <<>>, FALSE)

ConnCalls(d) ==
    LET lids == 0..d.lseq
        tids == 0..d.tseq
    IN  {SetupCall} \cup
        IF d.tables # {"lists", "todos"} THEN {}
        ELSE {Call("all_lists", 0, 0, <<>>, FALSE)}
             \cup {Call("find_list", i, 0, <<>>, FALSE) : i \in lids}
             \cup {Call("create_new_list", 0, 0, t, FALSE) :
                      t \in IF d.lseq < MaxListSeq THEN StoreListTitles ELSE {}}
             \cup {Call("update_list_by_id", i, 0, t, FALSE) :
                      i \in lids, t \in StoreListTitles}
             \cup {Call("delete_list", i, 0, <<>>, FALSE) : i \in lids}
             \cup {Call("create_new_todo", i, 0, u, FALSE) :
                      i \in lids, u \in IF d.tseq < MaxTodoSeq THEN StoreTodoTitles ELSE {}}
             \cup {Call("delete_todo_from_list", i, j, <<>>, FALSE) :
                      i \in lids, j \in tids}
             \cup {Call("update_todo_status", i, j, <<>>, c) :
                      i \in lids, j \in tids, c \in BOOLEAN}
             \cup {Call("mark_all_todos_completed", i, 0, <<>>, FALSE) : i \in lids}

ConnCall(p) ==
    /\ procs[p].pc = "idle"
    /\ procs[p].req = NoRequest
    /\ \E c \in ConnCalls(db) :
          procs' = [procs EXCEPT ![p] = Invoke(IdleProc, c, db)]
    /\ UNCHANGED <<db, connFrame>>

ConnReturn(p) ==
    /\ procs[p].pc = "returned"
    /\ procs[p].req = NoRequest
    /\ procs' = [procs EXCEPT ![p] = IdleProc]
    /\ UNCHANGED <<db, connFrame>>

DoCall == \E p \in DOMAIN procs : ConnCall(p)
DoConnect == \E p \in DOMAIN procs : ConnConnect(p)
DoExecSetup == \E p \in DOMAIN procs : ConnExecSetup(p)
DoExecMain == \E p \in DOMAIN procs : ConnExecMain(p)
DoExecTodos == \E p \in DOMAIN procs : ConnExecTodos(p)
DoExit == \E p \in DOMAIN procs : ConnExit(p)
DoClose == \E p \in DOMAIN procs : ConnClose(p)
DoReturn == \E p \in DOMAIN procs : ConnReturn(p)

NextConn ==
    \/ DoCall
    \/ DoConnect
    \/ DoExecSetup
    \/ DoExecMain
    \/ DoExecTodos
    \/ DoExit
    \/ DoClose
    \/ DoReturn

InitConn ==
    /\ db = EmptyDb
    /\ sess = EmptySess
    /\ op = IdleOp
    /\ dbRes = Idle
    /\ sessRes = Idle
    /\ resp = Response("none", "")
    /\ calls = <<>>
    /\ trip = NoTrip
    /\ made = [lists |-> 0, todos |-> 0]
    /\ mode = "db"
    /\ arg = [kind |-> "none"]
    /\ ret = [fn |-> "none"]
    /\ procs = [p \in {"c1"} |-> IdleProc]

SpecConn == InitConn /\ [][NextConn]_vars

(***************************************************************************)
(* Two requests handled at the same time (two workers of the application   *)
(* on one database).  A request runs load_storage, which constructs        *)
(* DatabasePersistence, then its handler, which invokes the storage        *)
(* operations one after another; the steps of the two requests interleave. *)
(***************************************************************************)
Then(c) == [call |-> c, resp |-> Response("none", "")]

Reply(kind, flash) == [call |-> NoCall, resp |-> Response(kind, flash)]

\* The handler of pr.req, as far as the operation last invoked has brought
\* it: the operation it invokes next, or its response.
Handle(pr) ==
    LET r     == pr.req
        last  == pr.did[Len(pr.did)]
        title == Strip(r.raw)
    IN  IF pr.out.kind = "error" THEN Reply("500", pr.out.err)
        ELSE IF last = "setup_schema"
        THEN CASE r.name = "index" -> Reply("redirect", "")
               [] r.name = "add_todo_list" -> Reply("render", "")
               [] r.name \in {"get_lists", "create_list"} ->
                     Then(Call("all_lists", 0, 0, <<>>, FALSE))
               [] OTHER -> Then(Call("find_list", r.list_id, 0, <<>>, FALSE))
        ELSE IF last = "find_list"
        THEN IF pr.out.kind = "none" THEN Reply("404", "")
             ELSE IF /\ r.name \in {"update_todo_status", "delete_todo"}
                     /\ \A lst \in pr.out.lists :
                           find_todo_by_id(r.todo_id, lst.todos) = {}
             THEN Reply("404", "")
             ELSE CASE r.name \in {"show_list", "edit_list"} -> Reply("render", "")
                    [] r.name = "create_todo" ->
                          IF error_for_todo(title) # None_
                          THEN Reply("render", error_for_todo(title))
                          ELSE Then(Call("create_new_todo", r.list_id, 0, title, FALSE))
                    [] r.name = "update_todo_status" ->
                          Then(Call("update_todo_status", r.list_id, r.todo_id, <<>>,
                                    r.completed = "True"))
                    [] r.name = "delete_todo" ->
                          Then(Call("delete_todo_from_list", r.list_id, r.todo_id,
                                    <<>>, FALSE))
                    [] r.name = "mark_all_todos_completed" ->
                          Then(Call("mark_all_todos_completed", r.list_id, 0, <<>>, FALSE))
                    [] r.name = "delete_list" ->
                          Then(Call("delete_list", r.list_id, 0, <<>>, FALSE))
                    [] r.name = "update_list" ->
                          Then(Call("all_lists", 0, 0, <<>>, FALSE))
        ELSE IF last = "all_lists"
        THEN CASE r.name = "get_lists" -> Reply("render", "")
               [] r.name = "create_list" ->
                     IF error_for_list_title(title, pr.out.lists) # None_
                     THEN Reply("render", error_for_list_title(title, pr.out.lists))
                     ELSE Then(Call("create_new_list", 0, 0, title, FALSE))
               [] r.name = "update_list" ->
                     IF error_for_list_title(title, pr.out.lists) # None_
                     THEN Reply("render", error_for_list_title(title, pr.out.lists))
                     ELSE Then(Call("update_list_by_id", r.list_id, 0, title, FALSE))
        ELSE CASE last = "create_new_list" ->
                     Reply("redirect", "The list has been created.")
               [] last = "update_list_by_id" ->
                     Reply("redirect", "The list has been updated.")
               [] last = "delete_list" ->
                     Reply("redirect", "The list has been deleted.")
               [] last = "create_new_todo" -> Reply("redirect", "The todo was added.")
               [] last = "delete_todo_from_list" ->
                     Reply("redirect", "The todo has been deleted.")
               [] last = "update_todo_status" ->
                     Reply("redirect", "The todo has been updated.")
               [] last = "mark_all_todos_completed" ->
                     Reply("redirect", "All todos have been updated.")

\* raw form fields of the two requests
RaceListTitles == {<<"a">>, <<"b", " ">>}
RaceTodoTitles == {TM}

\* the requests a client can send to the application whose store is d
RaceRequests(d) ==
    LET lids == 0..d.lseq
        tids == 0..d.tseq
    IN  {Request(n, 0, 0, <<>>, "") : n \in {"index", "get_lists", "add_todo_list"}}
        \cup {Request("create_list", 0, 0, raw, "") : raw \in RaceListTitles}
        \cup {Request(n, i, 0, <<>>, "") :
                 n \in {"show_list", "edit_list", "delete_list",
                        "mark_all_todos_completed"}, i \in lids}
        \cup {Request("update_list", i, 0, raw, "") : i \in lids, raw \in RaceListTitles}
        \cup {Request("create_todo", i, 0, raw, "") : i \in lids, raw \in RaceTodoTitles}
        \cup {Request("delete_todo", i, j, <<>>, "") : i \in lids, j \in tids}
        \cup {Request("update_todo_status", i, j, <<>>, c) :
                 i \in lids, j \in tids, c \in FormFlags}

\* the request arrives: load_storage constructs DatabasePersistence
ReqStart(p) ==
    /\ procs[p].pc = "idle"
    /\ \E r \in RaceRequests(db) :
          procs' = [procs EXCEPT ![p] = Invoke([IdleProc EXCEPT !.req = r], SetupCall, db)]
    /\ UNCHANGED <<db, connFrame>>

\* the operation has returned or raised: the handler goes on
ReqStep(p) ==
    LET pr == procs[p]
        h  == Handle(pr)
    IN  /\ pr.pc = "returned"
        /\ pr.req # NoRequest
        /\ procs' = [procs EXCEPT ![p] =
                        IF h.call # NoCall THEN Invoke(pr, h.call, db)
                        ELSE [pr EXCEPT !.pc = "done", !.resp = h.resp]]
        /\ UNCHANGED <<db, connFrame>>

DoReqStart == \E p \in DOMAIN procs : ReqStart(p)
DoReqStep == \E p \in DOMAIN procs : ReqStep(p)

NextRace ==
    \/ DoReqStart
    \/ DoReqStep
    \/ DoConnect
    \/ DoExecSetup
    \/ DoExecMain
    \/ DoExecTodos
    \/ DoExit
    \/ DoClose

\* stores the requests find: the schema alone; a list with a todo; two
\* lists, the first with a todo
Store0 == Db_init(EmptyDb)
Store1 == Db_create_new_todo(Db_create_new_list(Store0, TA).db, 1, TM).db
Store2 == Db_create_new_list(Store1, Long100).db

RaceStores == {Store0, Store1, Store2}

InitRace ==
    /\ db \in RaceStores
    /\ sess = EmptySess
    /\ op = IdleOp
    /\ dbRes = Idle
    /\ sessRes = Idle
    /\ resp = Response("none", "")
    /\ calls = <<>>
    /\ trip = NoTrip
    /\ made = [lists |-> 0, todos |-> 0]
    /\ mode = "db"
    /\ arg = [kind |-> "none"]
    /\ ret = [fn |-> "none"]
    /\ procs = [p \in Clients |-> IdleProc]

SpecRace == InitRace /\ [][NextRace]_vars

(***************************************************************************)
(* What a caller observes of a store: its lists in order of creation,      *)
(* each with its title and its todos (title, completed) in order of        *)
(* creation.  Ids are left out: the two variants draw them differently.    *)
(***************************************************************************)
TodoViews(ts) ==
    [i \in DOMAIN ts |-> [title |-> ts[i].title, completed |-> ts[i].completed]]

DbListView(l) == [title |-> l.title, todos |-> TodoViews(ById(l.todos))]

SessListView(l) == [title |-> l.title, todos |-> TodoViews(l.todos)]

DbListsView(ls) == LET q == ById(ls) IN [i \in DOMAIN q |-> DbListView(q[i])]

SessListsView(ls) == LET q == ById(ls) IN [i \in DOMAIN q |-> SessListView(q[i])]

DbStoreView(d) == DbListsView({Db_list_value(d, l) : l \in d.lists})

SessStoreView(s) == [i \in DOMAIN s.lists |-> SessListView(s.lists[i])]

DbResView(r) == [kind |-> r.kind, lists |-> DbListsView(r.lists)]

SessResView(r) == [kind |-> r.kind, lists |-> SessListsView(r.lists)]

DbListIds(d) == {l.id : l \in d.lists}

(***************************************************************************)
(* C1.  Applied to the same sequence of storage operations, the relational *)
(* variant and the session variant give every operation the same outcome   *)
(* (the same returned lists and todos, the same present/absent result,     *)
(* the same normal return or error) and hold the same lists and todos      *)
(* afterwards.  Stated as the claim makes it; checked under SpecBoth.      *)
(***************************************************************************)
C1_VariantsAgree ==
    (mode = "both" /\ op # IdleOp) =>
        /\ DbResView(dbRes) = SessResView(sessRes)
        /\ DbStoreView(db) = SessStoreView(sess)

(***************************************************************************)
(* C2.  A request to a list-scoped handler that names a list id no stored  *)
(* list has ends in 404, find_list having returned absent without an       *)
(* error.  Stated as the claim makes it; checked under SpecApp.            *)
(***************************************************************************)
ListScoped ==
    {"show_list", "create_todo", "update_todo_status", "delete_todo",
     "mark_all_todos_completed", "edit_list", "update_list", "delete_list"}

C2_UnknownListIs404 ==
    (op.name \in ListScoped /\ op.list_id \notin DbListIds(db)) =>
        /\ Db_find_list(db, op.list_id).kind = "none"
        /\ resp.kind = "404"

(***************************************************************************)
(* C3.  No orphan todos: every stored todo is owned by one list that       *)
(* exists; and once delete_list(id) has run on a list that had todos,      *)
(* find_list(id) is absent, no todo owned by id is left, and the other     *)
(* lists and their todos are as before.  Stated as the claim makes it;     *)
(* checked under SpecStore.                                                *)
(***************************************************************************)
NoOrphanTodos(d) == \A t \in d.todos : t.list_id \in DbListIds(d)

SessOthersKept(s, s2, id) ==
    SelectSeq(s.lists, LAMBDA l : l.id # id) = s2.lists

C3_NoOrphans ==
    [][/\ NoOrphanTodos(db')
       /\ (op'.name = "delete_list" /\ UsesDb
             /\ Db_find_todos_for_list(db, op'.dbList) # {}) =>
            /\ Db_find_list(db', op'.dbList).kind = "none"
            /\ Db_find_todos_for_list(db', op'.dbList) = {}
            /\ db'.lists = {l \in db.lists : l.id # op'.dbList}
            /\ db'.todos = {t \in db.todos : t.list_id # op'.dbList}
       /\ (op'.name = "delete_list" /\ UsesSess /\ SessHas(sess, op'.sessList)) =>
            /\ Sess_find_list(sess', op'.sessList).kind = "none"
            /\ SessOthersKept(sess, sess', op'.sessList)]_vars

\* the part of C3 that is about the stored state alone
C3_CascadeKept ==
    [][/\ NoOrphanTodos(db')
       /\ (op'.name = "delete_list" /\ UsesDb) =>
            /\ op'.dbList \notin DbListIds(db')
            /\ Db_find_todos_for_list(db', op'.dbList) = {}
            /\ db'.lists = {l \in db.lists : l.id # op'.dbList}
            /\ db'.todos = {t \in db.todos : t.list_id # op'.dbList}
       /\ (op'.name = "delete_list" /\ UsesSess) =>
            /\ ~SessHas(sess', op'.sessList)
            /\ SessOthersKept(sess, sess', op'.sessList)]_vars

(***************************************************************************)
(* C4.  List titles are unique: after any sequence of requests no two      *)
(* stored lists have the same title; and it is the validation of           *)
(* create_list and update_list that keeps them so: no request ever ends    *)
(* with the store refusing a duplicate title.  Checked under SpecApp.      *)
(***************************************************************************)
TitlesUnique(d) == \A l1, l2 \in d.lists : l1.title = l2.title => l1 = l2

C4_TitlesUnique ==
    /\ TitlesUnique(db)
    /\ ~(resp.kind = "500" /\ resp.flash = "UniqueViolation")

C4_Witness ==
    /\ op.name \in {"create_list", "update_list"}
    /\ resp = Response("render", "The title must be unique.")
    /\ Cardinality(db.lists) = 2

(***************************************************************************)
(* C5.  Every stored list title and todo title has a length between 1 and  *)
(* 100; a create_list, update_list or create_todo request whose stripped   *)
(* title has length 0 or more than 100 changes no stored list or todo.     *)
(* Checked under SpecApp.                                                  *)
(***************************************************************************)
LenOk(title) == 1 <= Len(title) /\ Len(title) <= MaxTitleLen

TitlesInRange(d) ==
    /\ \A l \in d.lists : LenOk(l.title)
    /\ \A t \in d.todos : LenOk(t.title)

TitleRequests == {"create_list", "update_list", "create_todo"}

C5_TitleLength ==
    [][/\ TitlesInRange(db')
       /\ (op'.name \in TitleRequests /\ ~LenOk(Strip(op'.raw))) =>
            (db'.lists = db.lists /\ db'.todos = db.todos)]_vars

C5_Witness ==
    /\ op.name = "create_todo"
    /\ Len(Strip(op.raw)) = MaxTitleLen + 1
    /\ resp = Response("render", "Todo title must be between 1 and 100 characters")
    /\ \E t \in db.todos : t.list_id = op.list_id /\ Len(t.title) = MaxTitleLen

(***************************************************************************)
(* C6.  A create_list, update_list or create_todo request that validation  *)
(* rejects (duplicate title, invalid length) leaves the stored lists and   *)
(* todos exactly as they were and invokes no storage operation that        *)
(* creates or updates.  Checked under SpecApp.                             *)
(***************************************************************************)
ValidationErrors ==
    {"The title must be unique.",
     "The title must be between 1 and 100 characters",
     "Todo title must be between 1 and 100 characters"}

Mutators ==
    {"create_new_list", "update_list_by_id", "delete_list", "create_new_todo",
     "delete_todo_from_list", "update_todo_status", "mark_all_todos_completed"}

C6_RejectedMutatesNothing ==
    [][(op'.name \in TitleRequests /\ resp'.flash \in ValidationErrors) =>
          /\ db'.lists = db.lists
          /\ db'.todos = db.todos
          /\ \A i \in DOMAIN calls' : calls'[i] \notin Mutators]_vars

C6_Witness ==
    /\ op.name = "update_list"
    /\ resp = Response("render", "The title must be unique.")
    /\ db.todos # {}
    /\ calls = <<"find_list", "all_lists">>

(***************************************************************************)
(* C7.  Round trip: after create_new_list(t), create_new_todo(u) on the    *)
(* new list and update_todo_status(c) on the new todo, find_list returns   *)
(* a list titled t with exactly one todo, titled u, whose completed flag   *)
(* is c; before any update the flag is false, and before any todo the new  *)
(* list has none.  trip follows the sequence; checked under SpecStore.     *)
(***************************************************************************)
TripFlag == IF trip.stage = 3 THEN trip.c ELSE FALSE

DbTripList ==
    [id |-> trip.dbList, title |-> trip.t,
     todos |-> IF trip.stage = 1 THEN {}
               ELSE {[id |-> trip.dbTodo, title |-> trip.u,
                      completed |-> TripFlag, list_id |-> trip.dbList]}]

SessTripList ==
    [id |-> trip.sessList, title |-> trip.t,
     todos |-> IF trip.stage = 1 THEN <<>>
               ELSE <<[id |-> trip.sessTodo, title |-> trip.u,
                       completed |-> TripFlag]>>]

C7_RoundTrip ==
    trip.stage \in {1, 2, 3} =>
        /\ UsesDb =>
             /\ Db_find_list(db, trip.dbList) = Ok({DbTripList})
             /\ (op.name = "find_list" /\ op.dbList = trip.dbList) =>
                    dbRes = Ok({DbTripList})
        /\ UsesSess =>
             /\ Sess_find_list(sess, trip.sessList) = Ok({SessTripList})
             /\ (op.name = "find_list" /\ op.sessList = trip.sessList) =>
                    sessRes = Ok({SessTripList})

C7_Witness ==
    /\ mode = "db"
    /\ trip.stage = 3
    /\ trip.c
    /\ op.name = "find_list"
    /\ op.dbList = trip.dbList
    /\ dbRes.kind = "ok"
    /\ Cardinality(db.lists) = 2

(***************************************************************************)
(* C8.  mark_all_todos_completed on an existing list sets completed on     *)
(* every todo of that list and changes nothing else: the lists, the        *)
(* todos' ids, titles and owners are as before, and the todos of the       *)
(* other lists keep their flags.  Checked under SpecStore.                 *)
(***************************************************************************)
\* the todos of d2 are those of d, with the flags that Flag gives them
DbTodosAre(d, d2, Flag(_)) ==
    /\ d2.lists = d.lists
    /\ {t.id : t \in d2.todos} = {t.id : t \in d.todos}
    /\ Cardinality(d2.todos) = Cardinality(d.todos)
    /\ \A t \in d.todos : \E t2 \in d2.todos :
          /\ t2.id = t.id /\ t2.title = t.title /\ t2.list_id = t.list_id
          /\ t2.completed = Flag(t)

SessTodosAre(s, s2, Flag(_, _)) ==
    /\ Len(s2.lists) = Len(s.lists)
    /\ s2.n = s.n
    /\ \A i \in DOMAIN s.lists :
          /\ s2.lists[i].id = s.lists[i].id
          /\ s2.lists[i].title = s.lists[i].title
          /\ Len(s2.lists[i].todos) = Len(s.lists[i].todos)
          /\ \A j \in DOMAIN s.lists[i].todos :
                /\ s2.lists[i].todos[j].id = s.lists[i].todos[j].id
                /\ s2.lists[i].todos[j].title = s.lists[i].todos[j].title
                /\ s2.lists[i].todos[j].completed =
                       Flag(s.lists[i], s.lists[i].todos[j])

C8_MarkAllFrame ==
    [][op'.name = "mark_all_todos_completed" =>
          /\ (UsesDb /\ op'.dbList \in DbListIds(db)) =>
                DbTodosAre(db, db',
                    LAMBDA t : IF t.list_id = op'.dbList THEN TRUE ELSE t.completed)
          /\ (UsesSess /\ SessHas(sess, op'.sessList)) =>
                SessTodosAre(sess, sess',
                    LAMBDA l, t : IF l.id = op'.sessList THEN TRUE ELSE t.completed)
      ]_vars

C8_Witness ==
    /\ mode = "db"
    /\ op.name = "mark_all_todos_completed"
    /\ dbRes.kind = "none"
    /\ \E t \in db.todos : t.list_id = op.dbList /\ t.completed
    /\ \E t \in db.todos : t.list_id # op.dbList /\ ~t.completed

(***************************************************************************)
(* C9.  delete_todo_from_list(list, todo) removes the todo with that id    *)
(* in that list and nothing else; update_todo_status(list, todo, c) sets   *)
(* the flag of that todo and nothing else.  Every other todo, in that      *)
(* list or another, and every list title is as before.  Checked under      *)
(* SpecStore.                                                              *)
(***************************************************************************)
SessListsKept(s, s2, Todos(_)) ==
    /\ Len(s2.lists) = Len(s.lists)
    /\ \A i \in DOMAIN s.lists :
          /\ s2.lists[i].id = s.lists[i].id
          /\ s2.lists[i].title = s.lists[i].title
          /\ s2.lists[i].todos = Todos(s.lists[i])

C9_TodoFrame ==
    [][/\ op'.name = "delete_todo_from_list" =>
            /\ UsesDb =>
                 /\ db'.lists = db.lists
                 /\ db'.todos \subseteq db.todos
                 /\ \A t \in db.todos :
                       t \notin db'.todos <=>
                           (t.list_id = op'.dbList /\ t.id = op'.dbTodo)
            /\ UsesSess =>
                 SessListsKept(sess, sess',
                     LAMBDA l : IF l.id = op'.sessList
                                THEN SelectSeq(l.todos, LAMBDA t : t.id # op'.sessTodo)
                                ELSE l.todos)
       /\ op'.name = "update_todo_status" =>
            /\ UsesDb =>
                 DbTodosAre(db, db',
                     LAMBDA t : IF t.list_id = op'.dbList /\ t.id = op'.dbTodo
                                THEN op'.status ELSE t.completed)
            /\ UsesSess =>
                 SessTodosAre(sess, sess',
                     LAMBDA l, t : IF l.id = op'.sessList /\ t.id = op'.sessTodo
                                   THEN op'.status ELSE t.completed)
      ]_vars

C9_Witness ==
    /\ mode = "db"
    /\ op.name = "delete_todo_from_list"
    /\ dbRes.kind = "none"
    /\ op.dbTodo \in 1..db.tseq
    /\ op.dbTodo \notin {t.id : t \in db.todos}
    /\ \E t \in db.todos : t.list_id = op.dbList
    /\ Cardinality(db.lists) = 2

(***************************************************************************)
(* C10.  update_list_by_id with an id that no stored list has is a no-op   *)
(* in both variants: it returns normally and every list, title and todo    *)
(* is as before.  Checked under SpecStore.                                 *)
(***************************************************************************)
C10_UpdateUnknownNoOp ==
    [][op'.name = "update_list_by_id" =>
          /\ (UsesDb /\ op'.dbList \notin DbListIds(db)) =>
                (db' = db /\ dbRes' = NoneRes)
          /\ (UsesSess /\ ~SessHas(sess, op'.sessList)) =>
                (sess' = sess /\ sessRes' = NoneRes)]_vars

C10_Witness ==
    /\ mode = "db"
    /\ op.name = "update_list_by_id"
    /\ op.dbList \notin DbListIds(db)
    /\ dbRes = NoneRes
    /\ \E l \in db.lists : l.title = op.title
    /\ \E l \in db.lists : l.title # op.title

(***************************************************************************)
(* C11.  An update_todo_status or delete_todo request that names a stored  *)
(* list and a todo id that is not among that list's todos (the id of no    *)
(* todo, or of a todo of another list) ends in 404, invokes no storage     *)
(* operation that mutates, and leaves every list and todo as it was.       *)
(* Checked under SpecApp.                                                  *)
(***************************************************************************)
TodoRequests == {"update_todo_status", "delete_todo"}

DbTodoIdsOf(d, list_id) == {t.id : t \in Db_find_todos_for_list(d, list_id)}

C11_UnknownTodoIs404 ==
    [][(/\ op'.name \in TodoRequests
        /\ op'.list_id \in DbListIds(db)
        /\ op'.todo_id \notin DbTodoIdsOf(db, op'.list_id)) =>
          /\ resp'.kind = "404"
          /\ \A i \in DOMAIN calls' : calls'[i] \notin Mutators
          /\ db'.lists = db.lists
          /\ db'.todos = db.todos]_vars

C11_Witness ==
    /\ op.name \in TodoRequests
    /\ op.list_id \in DbListIds(db)
    /\ resp.kind = "404"
    /\ calls = <<"find_list">>
    /\ \E t \in db.todos : t.id = op.todo_id /\ t.list_id # op.list_id

(***************************************************************************)
(* C12.  sort_items returns a permutation of its input in which every      *)
(* item the predicate rejects precedes every item it selects, and within   *)
(* each of the two groups the items are in non-decreasing order of         *)
(* lower-cased title, items of equal lower-cased title in the order they   *)
(* had in the input.  Checked under SpecUtils.                             *)
(***************************************************************************)
\* the completion predicate, stated on the fields of the item
Selected(item) ==
    IF arg.kind = "todos" THEN item.completed
    ELSE item.todos # <<>> /\ \A k \in DOMAIN item.todos : item.todos[k].completed

\* position of the item in a sequence of items of distinct ids
PosIn(items, item) == CHOOSE i \in DOMAIN items : items[i] = item

DistinctIds(items) ==
    \A i, j \in DOMAIN items : items[i].id = items[j].id => i = j

IsPermutation(out, items) ==
    /\ Len(out) = Len(items)
    /\ DistinctIds(out)
    /\ \A i \in DOMAIN out : \E j \in DOMAIN items : items[j] = out[i]

C12_SortItems ==
    ret.fn = "sort_items" =>
        LET items == ret.items
            out   == ret.value
        IN  /\ IsPermutation(out, items)
            /\ \A i, j \in DOMAIN out :
                  i < j =>
                    /\ ~(Selected(out[i]) /\ ~Selected(out[j]))
                    /\ Selected(out[i]) = Selected(out[j]) =>
                          /\ ~StrLess(Lower(out[j].title), Lower(out[i].title))
                          /\ Lower(out[i].title) = Lower(out[j].title) =>
                                PosIn(items, out[i]) < PosIn(items, out[j])

C12_Witness ==
    /\ ret.fn = "sort_items"
    /\ arg.kind = "todos"
    /\ Len(ret.items) = 3
    /\ ret.items[1].title = <<"a", "b">> /\ ret.items[1].completed
    /\ ret.items[2].title = <<"b">> /\ ~ret.items[2].completed
    /\ ret.items[3].title = <<"B">> /\ ~ret.items[3].completed
    /\ ret.value = <<ret.items[2], ret.items[3], ret.items[1]>>

(***************************************************************************)
(* C13.  sort_items is idempotent: applied to what it returned, with the   *)
(* same predicate, it returns that sequence again, also when items share   *)
(* a lower-cased title.  Checked under SpecUtils.                          *)
(***************************************************************************)
C13_SortIdempotent ==
    [][(/\ ret.fn = "sort_items"
        /\ ret'.fn = "sort_items"
        /\ ret'.items = ret.value) => ret'.value = ret.value]_vars

C13_Witness ==
    /\ ret.fn = "sort_items"
    /\ ret.items = ret.value
    /\ ret.items # arg.items
    /\ \E i, j \in DOMAIN ret.value :
          /\ i < j
          /\ ret.value[i].title # ret.value[j].title
          /\ Lower(ret.value[i].title) = Lower(ret.value[j].title)
          /\ Selected(ret.value[i]) = Selected(ret.value[j])

(***************************************************************************)
(* C14.  error_for_list_title returns the duplicate-title error when an    *)
(* existing list has exactly this title (case-sensitive); otherwise the    *)
(* invalid-length error when the length of the title is outside 1..100;    *)
(* otherwise no error.  error_for_todo returns the invalid-length error    *)
(* exactly when the length is outside 1..100, no error otherwise.          *)
(* Checked under SpecUtils.                                                *)
(***************************************************************************)
HasTitle(items, title) == \E i \in DOMAIN items : items[i].title = title

C14_Validation ==
    /\ ret.fn = "error_for_list_title" =>
          ret.value =
              IF HasTitle(arg.items, arg.title)
              THEN "The title must be unique."
              ELSE IF Len(arg.title) < 1 \/ Len(arg.title) > MaxTitleLen
              THEN "The title must be between 1 and 100 characters"
              ELSE None_
    /\ ret.fn = "error_for_todo" =>
          /\ ret.value \in {None_, "Todo title must be between 1 and 100 characters"}
          /\ ret.value # None_ <=>
                (Len(arg.title) < 1 \/ Len(arg.title) > MaxTitleLen)

C14_Witness ==
    /\ ret.fn = "error_for_list_title"
    /\ Len(arg.title) = MaxTitleLen + 1
    /\ HasTitle(arg.items, arg.title)
    /\ HasTitle(arg.items, <<"b">>)
    /\ ret.value = "The title must be unique."

(***************************************************************************)
(* C15.  is_list_completed(lst) is true if and only if lst has at least    *)
(* one todo and every todo of lst is completed; so a list without todos    *)
(* is never completed, and a list with todos is completed once all its     *)
(* todos have been marked completed.  Checked under SpecUtils.             *)
(***************************************************************************)
AllCompleted(todos) == \A k \in DOMAIN todos : todos[k].completed

C15_ListCompleted ==
    /\ ret.fn = "is_list_completed" =>
          /\ ret.value <=> (Len(ret.lst.todos) >= 1 /\ AllCompleted(ret.lst.todos))
          /\ ret.lst.todos = <<>> => ~ret.value
    /\ ret.fn = "mark_all_completed" =>
          \A i \in DOMAIN arg.items :
              (arg.items[i].id = ret.lst.id /\ ret.lst.todos # <<>>) =>
                  /\ Len(arg.items[i].todos) = Len(ret.lst.todos)
                  /\ is_list_completed(arg.items[i])

\* a list of two todos found completed: one of the two was open at the start
C15_Witness ==
    /\ ret.fn = "is_list_completed"
    /\ ret.value
    /\ Len(ret.lst.todos) = 2

\* the same consequence for the storage operation: once
\* mark_all_todos_completed has run on a stored list that has todos,
\* the list find_list returns is completed (holds under SpecStore)
C15_StoredListCompleted ==
    [][(op'.name = "mark_all_todos_completed" /\ UsesDb
          /\ Db_find_todos_for_list(db, op'.dbList) # {}) =>
          \A l \in Db_find_list(db', op'.dbList).lists :
              is_list_completed([l EXCEPT !.todos = ById(@)])]_vars

(***************************************************************************)
(* C16.  Every connection an operation of DatabasePersistence opens is     *)
(* closed before the operation returns or raises, also when find_list      *)
(* finds no row and when a statement fails: no connection is open between  *)
(* two operations, and at most one is open at any moment, the todo         *)
(* fetches of all_lists and find_list included (each opens its connection  *)
(* when the one before is closed).  Checked under SpecConn.                *)
(***************************************************************************)
C16_ConnectionsClosed ==
    \A p \in DOMAIN procs :
        /\ procs[p].open \in {0, 1}
        /\ procs[p].pc \in {"idle", "returned", "connect"} => procs[p].open = 0

C16_Witness ==
    \E p \in DOMAIN procs :
        /\ procs[p].pc = "returned"
        /\ procs[p].call.name = "find_list"
        /\ procs[p].out = Raised("TypeError")
        /\ procs[p].open = 0
        /\ db.lists # {}

(***************************************************************************)
(* C17.  Each operation of DatabasePersistence is atomic: when its         *)
(* statement succeeds, what it did is committed; when it raises (a         *)
(* create_new_list whose title another list has, a create_new_todo for a   *)
(* list id no list has) the transaction is rolled back, the stored lists   *)
(* and todos are what they were before, and the caller gets the error.     *)
(* Checked under SpecConn.                                                 *)
(***************************************************************************)
Writes ==
    {"create_new_list", "update_list_by_id", "delete_list", "create_new_todo",
     "delete_todo_from_list", "update_todo_status", "mark_all_todos_completed"}

C17_Atomic ==
    [][\A p \in DOMAIN procs :
          LET pr == procs[p]
              x  == Statement(db, pr.call)
          IN  /\ (pr.pc = "exit" /\ procs'[p].pc = "close"
                    /\ pr.call.name \in Writes) =>
                   IF x.res.kind = "error"
                   THEN /\ pr.exc = x.res.err
                        /\ db'.lists = db.lists
                        /\ db'.todos = db.todos
                   ELSE /\ pr.exc = ""
                        /\ db' = x.db
              /\ (pr.pc = "close" /\ procs'[p].pc # "close"
                    /\ pr.call.name \in Writes) =>
                   /\ procs'[p].pc = "returned"
                   /\ procs'[p].out = IF pr.exc # "" THEN Raised(pr.exc) ELSE NoneRes
      ]_vars

C17_Witness ==
    \E p \in DOMAIN procs :
        /\ procs[p].pc = "returned"
        /\ procs[p].call.name = "create_new_list"
        /\ procs[p].out = Raised("UniqueViolation")
        /\ Cardinality(db.lists) = 1
        /\ db.todos # {}

(***************************************************************************)
(* C18.  The schema setup is idempotent: a construction of                 *)
(* DatabasePersistence creates the table lists and the table todos only    *)
(* when they are absent; constructions one after another never fail,       *)
(* never create a table that is there, and never change the rows stored.   *)
(* Checked under SpecConn.                                                 *)
(***************************************************************************)
C18_SetupIdempotent ==
    [][\A p \in DOMAIN procs :
          (procs[p].call.name = "setup_schema" /\ procs'[p] # procs[p]) =>
              /\ procs'[p].exc = ""
              /\ procs'[p].dirty => db.tables # {"lists", "todos"}
              /\ db'.lists = db.lists
              /\ db'.todos = db.todos
              /\ db'.lseq = db.lseq /\ db'.tseq = db.tseq
              /\ db.tables \subseteq db'.tables
              /\ procs'[p].pc = "returned" =>
                    /\ procs'[p].out = NoneRes
                    /\ db'.tables = {"lists", "todos"}
      ]_vars

C18_Witness ==
    \E p \in DOMAIN procs :
        /\ procs[p].pc = "returned"
        /\ procs[p].call.name = "setup_schema"
        /\ db.lists # {}
        /\ db.todos # {}

(***************************************************************************)
(* C19.  Two create_list or update_list requests carrying the same valid   *)
(* title, handled at the same time so that both validate the title         *)
(* before either writes: the store never holds two lists of one title; a   *)
(* write that raises leaves the stored lists and todos as they were; and   *)
(* of the two writes one commits and the other fails with the UNIQUE       *)
(* violation.  Checked under SpecRace.                                     *)
(***************************************************************************)
TitleWrites == {"create_new_list", "update_list_by_id"}

\* the request of pr has passed its validation and invoked its write
WroteTitle(pr) ==
    /\ pr.req.name \in {"create_list", "update_list"}
    /\ pr.pc = "done"
    /\ pr.did # <<>>
    /\ pr.did[Len(pr.did)] \in TitleWrites

\* both requests wrote the same title.  Neither write was committed before
\* the validation read of the other, which would have found the title.
SameTitleRace(ps, p, q) ==
    /\ p # q
    /\ WroteTitle(ps[p])
    /\ WroteTitle(ps[q])
    /\ Strip(ps[p].req.raw) = Strip(ps[q].req.raw)

\* the two requests are updates of one and the same list
SameRow(ps, p, q) ==
    /\ ps[p].req.name = "update_list"
    /\ ps[q].req.name = "update_list"
    /\ ps[p].req.list_id = ps[q].req.list_id

OneCommitsOneFails(ps, p, q) ==
    \/ /\ ps[p].resp.kind = "redirect"
       /\ ps[q].resp = Response("500", "UniqueViolation")
    \/ /\ ps[q].resp.kind = "redirect"
       /\ ps[p].resp = Response("500", "UniqueViolation")

\* the claim as it is made: of any two such writes one commits, one fails
C19_OneWriteCommits ==
    /\ TitlesUnique(db)
    /\ \A p, q \in DOMAIN procs :
          SameTitleRace(procs, p, q) => OneCommitsOneFails(procs, p, q)

\* the claim with the two updates of one list set apart: they both commit,
\* and the list has the title
C19_TitlesUniqueInRace ==
    [][/\ TitlesUnique(db')
       /\ \A p \in DOMAIN procs :
             (procs[p].pc = "exit" /\ procs'[p].pc = "close" /\ procs[p].exc # "") =>
                 (db'.lists = db.lists /\ db'.todos = db.todos)
       /\ \A p, q \in DOMAIN procs' :
             SameTitleRace(procs', p, q) =>
                 IF SameRow(procs', p, q)
                 THEN /\ procs'[p].resp.kind = "redirect"
                      /\ procs'[q].resp.kind = "redirect"
                      /\ \E l \in db'.lists :
                            /\ l.id = procs'[p].req.list_id
                            /\ l.title = Strip(procs'[p].req.raw)
                 ELSE OneCommitsOneFails(procs', p, q)
      ]_vars

C19_Witness ==
    /\ SameTitleRace(procs, "c1", "c2")
    /\ procs["c1"].req.name = "create_list"
    /\ procs["c2"].req.name = "update_list"
    /\ procs["c1"].resp = Response("500", "UniqueViolation")
    /\ procs["c2"].resp.kind = "redirect"
    /\ Cardinality(db.lists) = 2

(***************************************************************************)
(* C20.  find_list and all_lists return a consistent snapshot: every list  *)
(* they return is paired with the todos that list had in one state of the  *)
(* store, among the states the store was in while the operation ran, also  *)
(* when another request commits a delete_list, create_new_todo or          *)
(* delete_todo_from_list between the read of the rows of lists and the     *)
(* read of the rows of todos.  Stated as the claim makes it; checked       *)
(* under SpecRace.                                                         *)
(***************************************************************************)
C20_ReadsConsistent ==
    \A p \in DOMAIN procs :
        (procs[p].pc = "returned" /\ procs[p].call.name \in Reads
           /\ procs[p].out.kind = "ok") =>
            procs[p].out.lists \subseteq procs[p].seen

=============================================================================
